---- MODULE Spec2Model ----
(***************************************************************************)
(* Model of the 'events' library: EventEmitter (registry of listeners),    *)
(* ConnectionHandle (RAII token for one connection) and Object (an emitter *)
(* plus a list of handles for the connections it receives).                *)
(*                                                                         *)
(* Objects live at addresses.  An address holds nothing, a plain           *)
(* EventEmitter or an Object; an address can be reused after destruction.  *)
(* The shared_ptr<int> m_lifecontrol of an emitter is a token that is      *)
(* fresh for every constructed emitter; a weak_ptr to it is the token, and *)
(* lock() succeeds while some live emitter still owns that token.          *)
(***************************************************************************)
EXTENDS Integers, Sequences, FiniteSets, TLC

\* ---------------------------------------------------------------- bounds
\* number of addresses at which an Object can be constructed
NumAddrs == 2
\* number of addresses at which a plain EventEmitter can be constructed
NumEmitters == 1
\* number of ConnectionHandle variables of the client program
NumHandles == 1
\* cap on m_id_generator in the dispatch scenarios (one emitter)
MaxId == 3
\* cap on the sum of the m_id_generator of the emitters that exist, in the
\* scenarios with handles and with objects
MaxIdLife == 2
\* cap on the number of plain emitters constructed during a run
MaxTokens == 1
\* cap on the number of plain emitters constructed (not move-constructed)
\* during a run in which emitters are moved
MaxMoveTokens == 2
\* cap on the number of objects constructed during a run
MaxObjectTokens == 2
\* cap on the length of an Object's m_connection_list
MaxConn == 1
\* largest number of arguments passed to invoke_relaxed
MaxArgs == 3
\* number of distinct argument values
NumArgValues == 3
\* number of addresses at which a Publisher can be constructed
NumPublishers == 2
\* number of addresses at which a Subscriber can be constructed
NumSubscribers == 2
\* entries that the sets of subscribers of all publishers hold together
MaxSubscriptions == 3

Addrs == 1..(IF NumEmitters > NumAddrs THEN NumEmitters ELSE NumAddrs)
EmitterAddrs == 1..NumEmitters
ObjectAddrs == 1..NumAddrs
Handles == 1..NumHandles

\* ---------------------------------------------------------------- events
\* Events are pointers to member functions; the names are those of
\* tests/main.cpp (class MyClass).  nChanged and pChanged have the same
\* parameter list, superEvent has a different one.
Events == {"nChanged", "pChanged", "superEvent"}

\* the C++ type of the pointer to member function identifying an event
MemFnPtr(ev) == IF ev = "superEvent" THEN "void(MyClass::*)()" ELSE "void(MyClass::*)(int)"

\* behaviour of a user callback when it is called
Callbacks == {"returns", "throws"}

\* callbacks that return, and callbacks that register a listener for their
\* own event on the emitter that calls them
ReentrantCallbacks == {"returns", "registers"}

VARIABLES
  kind,               \* address -> "none" | "emitter" | "object"
  m_lifecontrol,      \* address -> token owned by the emitter there (0: none)
  nextToken,          \* number of emitters constructed so far
  m_id_generator,     \* address -> EventEmitter::m_id_generator
  m_listeners,        \* address -> EventEmitter::m_listeners
  m_connection_list,  \* address -> Object::m_connection_list
  handles,            \* the client's ConnectionHandle variables
  history,            \* history: what handles and contexts did to connections
  out,                \* what the last operation did and returned
  relaxed_f,          \* invoke_relaxed: the callable f (its parameter count)
  relaxed_t,          \* invoke_relaxed: the arguments, as the tuple t
  relaxed_call,       \* invoke_relaxed: the call of f that was made
  p_alive,            \* publisher address -> a Publisher lives there
  m_subscribers,      \* publisher address -> Publisher::m_subscribers
  s_alive,            \* subscriber address -> a Subscriber lives there
  m_publisher,        \* subscriber address -> Subscriber::m_publisher (0: nullptr)
  ps_out              \* what the last publisher/subscriber operation did

\* the variables of the emitters, handles and objects
emitterVars == <<kind, m_lifecontrol, nextToken, m_id_generator, m_listeners, m_connection_list, handles, history, out>>
\* the variables of invoke_relaxed
relaxedVars == <<relaxed_f, relaxed_t, relaxed_call>>
\* the variables of the publishers and subscribers
pubsubVars == <<p_alive, m_subscribers, s_alive, m_publisher, ps_out>>

vars == <<emitterVars, relaxedVars, pubsubVars>>

\* ------------------------------------------------------------- listeners
\* details::MemberFunctionEventListener: id, once_flag, m_signal, m_callback
Listener(i, ev, cb, flag) == [id |-> i, m_signal |-> ev, m_callback |-> cb, once_flag |-> flag]

\* MemberFunctionEventListener::matches: any_cast throws std::bad_any_cast
\* when the signal holds a pointer of another type, else compares pointers
matches_any(l, signal) == IF MemFnPtr(signal) # MemFnPtr(l.m_signal) THEN "bad_any_cast" ELSE "true"
matches(l, signal) == IF MemFnPtr(signal) # MemFnPtr(l.m_signal) THEN "bad_any_cast" ELSE IF signal = l.m_signal THEN "true" ELSE "false"

\* invoke_relaxed(m_callback, args...): the user callback is called
invoke_relaxed(l) == IF l.m_callback = "throws" THEN "exception" ELSE "ok"

\* MemberFunctionEventListener::invoke: the callback runs inside try/catch(...)
invoke_nocatch(l) == invoke_relaxed(l)
invoke(l) == IF invoke_relaxed(l) = "exception" THEN "ok" ELSE invoke_relaxed(l)

\* std::vector::erase of the element at position it
erase(ls, it) == [k \in 1..(Len(ls) - 1) |-> IF k < it THEN ls[k] ELSE ls[k + 1]]

\* what m_listeners.push_back does to the vector when a callback calls on()
\* while emit iterates over it: the element is appended in place (capacity
\* suffices), or the storage is reallocated and the iterator and the
\* reference held by emit dangle
Growth == {"in_place", "reallocates"}

\* the loop of EventEmitter::emit, from iterator position it on; calls is the
\* list of ids whose callback was called so far, gen is m_id_generator.  A
\* callback "registers" calls on(its own event, a callback that returns) on
\* the emitter; when that reallocates the vector, the test of l->once_flag
\* that follows reads released memory and the process ends ("crash").
RECURSIVE emit_loop(_, _, _, _, _, _)
emit_loop(ls, it, event, calls, gen, grow) ==
  IF it > Len(ls) THEN [ls |-> ls, calls |-> calls, result |-> "ok", gen |-> gen]
  ELSE LET l == ls[it]
           m == matches(l, event)
       IN IF m = "bad_any_cast" THEN [ls |-> ls, calls |-> calls, result |-> "bad_any_cast", gen |-> gen]
          ELSE IF m = "true"
               THEN LET r == invoke(l)
                        c == Append(calls, l.id)
                        on == l.m_callback = "registers"
                        g == IF on THEN gen + 1 ELSE gen
                        ls1 == IF on THEN Append(ls, Listener(g, l.m_signal, "returns", FALSE)) ELSE ls
                    IN IF r # "ok" THEN [ls |-> ls1, calls |-> c, result |-> r, gen |-> g]
                       ELSE IF on /\ grow = "reallocates" THEN [ls |-> ls1, calls |-> c, result |-> "crash", gen |-> g]
                       ELSE IF l.once_flag THEN emit_loop(erase(ls1, it), it, event, c, g, grow)
                            ELSE emit_loop(ls1, it + 1, event, c, g, grow)
               ELSE emit_loop(ls, it + 1, event, calls, gen, grow)

\* std::lower_bound over [first, first+count) with the comparison ptr->id < cid
RECURSIVE lower_bound(_, _, _, _)
lower_bound(ls, first, count, cid) ==
  IF count <= 0 THEN first
  ELSE LET step == count \div 2
           mid == first + step
       IN IF ls[mid].id < cid THEN lower_bound(ls, mid + 1, count - (step + 1), cid)
          ELSE lower_bound(ls, first, step, cid)

\* EventEmitter::removeListener on the vector ls
removeListener_noeq(ls, connection_id) ==
  LET it == lower_bound(ls, 1, Len(ls), connection_id)
  IN IF it <= Len(ls)
     THEN [ls |-> erase(ls, it), ret |-> TRUE]
     ELSE [ls |-> ls, ret |-> FALSE]
removeListener(ls, connection_id) ==
  LET it == lower_bound(ls, 1, Len(ls), connection_id)
  IN IF it <= Len(ls) /\ ls[it].id = connection_id
     THEN [ls |-> erase(ls, it), ret |-> TRUE]
     ELSE [ls |-> ls, ret |-> FALSE]

\* --------------------------------------------------------------- handles
\* ConnectionHandle: m_emitter (0: nullptr), m_live (0: empty weak_ptr),
\* m_connection_id.  constructed: the variable holds a handle object.
\* st is history only: "empty", "connected", "released", "disconnected",
\* "disconnected_again" (disconnect() called once more after a disconnect),
\* "moved" (the handle was moved from).
HandleRec(c, e, live, cid, s) == [constructed |-> c, m_emitter |-> e, m_live |-> live, m_connection_id |-> cid, st |-> s]
NoHandle == HandleRec(FALSE, 0, 0, 0, "empty")
EmptyHandle == HandleRec(TRUE, 0, 0, 0, "empty")

\* std::weak_ptr::lock() != nullptr
lock(live) == live # 0 /\ \E a \in Addrs : m_lifecontrol[a] = live

\* ConnectionHandle::isValid
isValid(hd) == hd.m_emitter # 0 /\ lock(hd.m_live)

\* ConnectionHandle::eventEmitter
eventEmitter(hd) == IF isValid(hd) THEN hd.m_emitter ELSE 0

\* ConnectionHandle::release: the handle after the call and the returned id
release_keep(hd) == [hd |-> hd, ret |-> hd.m_connection_id]
release(hd) == [hd |-> [hd EXCEPT !.m_emitter = 0, !.m_live = 0, !.m_connection_id = 0], ret |-> hd.m_connection_id]

\* ConnectionHandle::disconnect on the registries regs: the handle and the
\* registries after the call, and the removeListener calls made (rm)
disconnect(hd, regs) ==
  IF isValid(hd)
  THEN [hd |-> release(hd).hd,
        regs |-> [regs EXCEPT ![hd.m_emitter] = removeListener(regs[hd.m_emitter], hd.m_connection_id).ls],
        rm |-> << <<hd.m_emitter, hd.m_connection_id>> >>]
  ELSE [hd |-> hd, regs |-> regs, rm |-> <<>>]

\* ConnectionHandle::~ConnectionHandle
dtor(hd, regs) == disconnect(hd, regs)

\* history: connection id of the emitter with token tok was cut by
\* disconnect() ("disconnect") or by the destructor ("dtor") of a handle
\* that was valid, was let go by release() ("release"), or was made by
\* Object::connect with the context object whose token is ctx ("connect")
Event(tok, id, by, ctx) == [tok |-> tok, id |-> id, by |-> by, ctx |-> ctx]

\* the handle still refers to a live emitter
Live(hd) == hd.m_emitter # 0 /\ hd.m_live # 0 /\ \E a \in Addrs : m_lifecontrol[a] = hd.m_live

Cut(hd, by) == IF Live(hd) THEN {Event(hd.m_live, hd.m_connection_id, by, 0)} ELSE {}

\* ------------------------------------------------------------------ out
\* op: the operation; a: the emitter's address; ev: the event; h: the handle
\* variable; calls: ids whose callback emit called, in call order; result:
\* how emit ended ("ok" or the exception that left it); ret: returned id
\* (for ~Object: the number of handles it destroyed; for the moves: the
\* handle variable or the address moved from; for emit: the number of
\* callbacks that threw);
\* removed: removeListener's return value; rm: removeListener calls made
\* through handles, as <<address, id>>; pst: the handle's st before the call
Out(op, a, ev, h, calls, result, ret, removed, rm, pst) ==
  [op |-> op, a |-> a, ev |-> ev, h |-> h, calls |-> calls, result |-> result, ret |-> ret, removed |-> removed, rm |-> rm, pst |-> pst]
NoOut == Out("init", 0, "", 0, <<>>, "", 0, FALSE, <<>>, "")

\* -------------------------------------------------- emitter construction
\* the state of the members of an emitter that does not exist
Gone(a) ==
  /\ kind' = [kind EXCEPT ![a] = "none"]
  /\ m_lifecontrol' = [m_lifecontrol EXCEPT ![a] = 0]
  /\ m_id_generator' = [m_id_generator EXCEPT ![a] = 0]

\* EventEmitter::EventEmitter: a fresh m_lifecontrol, no listener, counter 0
Construct(a, k) ==
  /\ kind[a] = "none"
  /\ kind' = [kind EXCEPT ![a] = k]
  /\ nextToken' = nextToken + 1
  /\ m_lifecontrol' = [m_lifecontrol EXCEPT ![a] = nextToken + 1]
  /\ m_id_generator' = [m_id_generator EXCEPT ![a] = 0]
  /\ m_listeners' = [m_listeners EXCEPT ![a] = <<>>]
  /\ m_connection_list' = [m_connection_list EXCEPT ![a] = <<>>]
  /\ UNCHANGED <<handles, history>>
  /\ UNCHANGED <<relaxedVars, pubsubVars>>

EventEmitterCtor(a) ==
  /\ Construct(a, "emitter")
  /\ out' = Out("EventEmitter", a, "", 0, <<>>, "", 0, FALSE, <<>>, "")

\* class Object: the implicit constructor builds m_events and an empty list
ObjectCtor(a) ==
  /\ Construct(a, "object")
  /\ out' = Out("Object", a, "", 0, <<>>, "", 0, FALSE, <<>>, "")

\* history is kept only for emitters that still exist
Prune(S, a) == {c \in S : c.tok # m_lifecontrol[a]}

\* EventEmitter::~EventEmitter (implicit): the listeners are deleted and the
\* only strong reference to m_lifecontrol is dropped
EventEmitterDtor(a) ==
  /\ kind[a] = "emitter"
  /\ Gone(a)
  /\ m_listeners' = [m_listeners EXCEPT ![a] = <<>>]
  /\ history' = Prune(history, a)
  /\ out' = Out("~EventEmitter", a, "", 0, <<>>, "", 0, FALSE, <<>>, "")
  /\ UNCHANGED <<nextToken, m_connection_list, handles>>
  /\ UNCHANGED <<relaxedVars, pubsubVars>>

\* ------------------------------------------------------------ registry
\* ConnectionHandle::ConnectionHandle(ConnectionData)
ConnectionHandleOf(emitter, connection_id) ==
  HandleRec(TRUE, emitter, IF emitter # 0 THEN m_lifecontrol[emitter] ELSE 0, connection_id, "connected")

\* on() and once(): ++m_id_generator, push_back of the new listener; the
\* returned ConnectionData is dropped (h = 0) or initialises handle h
Register_size(a, ev, cb, flag, h, op) ==
  /\ kind[a] # "none"
  /\ m_id_generator[a] < MaxId
  /\ h # 0 => ~handles[h].constructed
  /\ LET id == Len(m_listeners[a]) + 1
     IN /\ m_id_generator' = [m_id_generator EXCEPT ![a] = id]
        /\ m_listeners' = [m_listeners EXCEPT ![a] = Append(@, Listener(id, ev, cb, flag))]
        /\ handles' = IF h = 0 THEN handles ELSE [handles EXCEPT ![h] = ConnectionHandleOf(a, id)]
        /\ out' = Out(op, a, ev, h, <<>>, "", id, FALSE, <<>>, "")
  /\ UNCHANGED <<kind, m_lifecontrol, nextToken, m_connection_list, history>>
  /\ UNCHANGED <<relaxedVars, pubsubVars>>
Register(a, ev, cb, flag, h, op) ==
  /\ kind[a] # "none"
  /\ m_id_generator[a] < MaxId
  /\ h # 0 => ~handles[h].constructed
  /\ LET id == m_id_generator[a] + 1
     IN /\ m_id_generator' = [m_id_generator EXCEPT ![a] = id]
        /\ m_listeners' = [m_listeners EXCEPT ![a] = Append(@, Listener(id, ev, cb, flag))]
        /\ handles' = IF h = 0 THEN handles ELSE [handles EXCEPT ![h] = ConnectionHandleOf(a, id)]
        /\ out' = Out(op, a, ev, h, <<>>, "", id, FALSE, <<>>, "")
  /\ UNCHANGED <<kind, m_lifecontrol, nextToken, m_connection_list, history>>
  /\ UNCHANGED <<relaxedVars, pubsubVars>>

On(a, ev, cb, h) == Register(a, ev, cb, FALSE, h, "on")

Once(a, ev, cb, h) == Register(a, ev, cb, TRUE, h, "once")

\* how many of the callbacks called threw an exception
Caught(ls, calls) ==
  Cardinality({k \in 1..Len(ls) : ls[k].m_callback = "throws" /\ \E j \in 1..Len(calls) : calls[j] = ls[k].id})

\* EventEmitter::emit (Object::emit delegates to it)
Emit(a, ev, grow) ==
  /\ kind[a] # "none"
  /\ LET r == emit_loop(m_listeners[a], 1, ev, <<>>, m_id_generator[a], grow)
     IN /\ m_listeners' = [m_listeners EXCEPT ![a] = r.ls]
        /\ m_id_generator' = [m_id_generator EXCEPT ![a] = r.gen]
        /\ out' = Out("emit", a, ev, 0, r.calls, r.result, Caught(m_listeners[a], r.calls), FALSE, <<>>, "")
  /\ UNCHANGED <<kind, m_lifecontrol, nextToken, m_connection_list, handles, history>>
  /\ UNCHANGED <<relaxedVars, pubsubVars>>

\* EventEmitter::removeListener called by the client
RemoveListener(a, cid) ==
  /\ kind[a] # "none"
  /\ LET r == removeListener(m_listeners[a], cid)
     IN /\ m_listeners' = [m_listeners EXCEPT ![a] = r.ls]
        /\ out' = Out("removeListener", a, "", 0, <<>>, "", cid, r.ret, <<>>, "")
  /\ UNCHANGED <<kind, m_lifecontrol, nextToken, m_id_generator, m_connection_list, handles, history>>
  /\ UNCHANGED <<relaxedVars, pubsubVars>>

\* --------------------------------------------------------------- handles
\* ConnectionHandle::ConnectionHandle() = default
HandleCtor(h) ==
  /\ ~handles[h].constructed
  /\ handles' = [handles EXCEPT ![h] = EmptyHandle]
  /\ out' = Out("ConnectionHandle", 0, "", h, <<>>, "", 0, FALSE, <<>>, "")
  /\ UNCHANGED <<kind, m_lifecontrol, nextToken, m_id_generator, m_listeners, m_connection_list, history>>
  /\ UNCHANGED <<relaxedVars, pubsubVars>>

\* ConnectionHandle::release called by the client
Release(h) ==
  /\ handles[h].constructed
  /\ LET r == release(handles[h])
     IN /\ handles' = [handles EXCEPT ![h] = [r.hd EXCEPT !.st = IF handles[h].st = "connected" THEN "released" ELSE @]]
        /\ out' = Out("release", handles[h].m_emitter, "", h, <<>>, "", r.ret, FALSE, <<>>, handles[h].st)
  /\ history' = history \cup Cut(handles[h], "release")
  /\ UNCHANGED <<kind, m_lifecontrol, nextToken, m_id_generator, m_listeners, m_connection_list>>
  /\ UNCHANGED <<relaxedVars, pubsubVars>>

\* history: the handle's st after disconnect() was called on it
AfterDisconnect(hd) ==
  IF Live(hd) THEN "disconnected"
  ELSE IF hd.st \in {"disconnected", "disconnected_again"} THEN "disconnected_again"
  ELSE hd.st

\* ConnectionHandle::disconnect called by the client
Disconnect(h) ==
  /\ handles[h].constructed
  /\ LET d == disconnect(handles[h], m_listeners)
     IN /\ handles' = [handles EXCEPT ![h] = [d.hd EXCEPT !.st = AfterDisconnect(handles[h])]]
        /\ m_listeners' = d.regs
        /\ out' = Out("disconnect", handles[h].m_emitter, "", h, <<>>, "", handles[h].m_connection_id, FALSE, d.rm, handles[h].st)
  /\ history' = history \cup Cut(handles[h], "disconnect")
  /\ UNCHANGED <<kind, m_lifecontrol, nextToken, m_id_generator, m_connection_list>>
  /\ UNCHANGED <<relaxedVars, pubsubVars>>

\* a ConnectionHandle variable goes out of scope
HandleDtor(h) ==
  /\ handles[h].constructed
  /\ LET d == dtor(handles[h], m_listeners)
     IN /\ m_listeners' = d.regs
        /\ out' = Out("~ConnectionHandle", handles[h].m_emitter, "", h, <<>>, "", handles[h].m_connection_id, FALSE, d.rm, handles[h].st)
  /\ handles' = [handles EXCEPT ![h] = NoHandle]
  /\ history' = history \cup Cut(handles[h], "dtor")
  /\ UNCHANGED <<kind, m_lifecontrol, nextToken, m_id_generator, m_connection_list>>
  /\ UNCHANGED <<relaxedVars, pubsubVars>>

\* ConnectionHandle h(d), where d is a copy the client kept of the
\* ConnectionData that the last on() or once() returned
HandleOfData(h) ==
  /\ out.op \in {"on", "once", "ConnectionHandle(ConnectionData)"}
  /\ ~handles[h].constructed
  /\ handles' = [handles EXCEPT ![h] = ConnectionHandleOf(out.a, out.ret)]
  /\ out' = Out("ConnectionHandle(ConnectionData)", out.a, "", h, <<>>, "", out.ret, FALSE, <<>>, "")
  /\ UNCHANGED <<kind, m_lifecontrol, nextToken, m_id_generator, m_listeners, m_connection_list, history>>
  /\ UNCHANGED <<relaxedVars, pubsubVars>>

\* ConnectionHandle::ConnectionHandle(ConnectionHandle&& other): h is
\* constructed from variable other, which is released
HandleMoveCtor(h, other) ==
  /\ ~handles[h].constructed
  /\ handles[other].constructed
  /\ LET src == handles[other]
     IN /\ handles' = [handles EXCEPT ![h] = HandleRec(TRUE, src.m_emitter, src.m_live, src.m_connection_id, src.st),
                                      ![other] = [release(src).hd EXCEPT !.st = "moved"]]
        /\ out' = Out("ConnectionHandle(&&)", src.m_emitter, "", h, <<>>, "", other, FALSE, <<>>, "")
  /\ UNCHANGED <<kind, m_lifecontrol, nextToken, m_id_generator, m_listeners, m_connection_list, history>>
  /\ UNCHANGED <<relaxedVars, pubsubVars>>

\* ConnectionHandle::operator=(ConnectionHandle&& other): disconnect(), then
\* the members are copied from other (which is h itself in a self-move),
\* then other.release()
HandleMoveAssign(h, other) ==
  /\ handles[h].constructed
  /\ handles[other].constructed
  /\ LET d == disconnect(handles[h], m_listeners)
         hs1 == [handles EXCEPT ![h] = [d.hd EXCEPT !.st = AfterDisconnect(handles[h])]]
         src == hs1[other]
         hs2 == [hs1 EXCEPT ![h] = HandleRec(TRUE, src.m_emitter, src.m_live, src.m_connection_id, src.st)]
     IN /\ handles' = [hs2 EXCEPT ![other] = [release(hs2[other]).hd EXCEPT !.st = "moved"]]
        /\ m_listeners' = d.regs
        /\ out' = Out("operator=", handles[h].m_emitter, "", h, <<>>, "", other, FALSE, d.rm, handles[h].st)
  /\ history' = history \cup Cut(handles[h], "disconnect")
  /\ UNCHANGED <<kind, m_lifecontrol, nextToken, m_id_generator, m_connection_list>>
  /\ UNCHANGED <<relaxedVars, pubsubVars>>

\* EventEmitter::EventEmitter(EventEmitter&&) (implicit): the emitter at dst
\* is constructed from the one at src; m_lifecontrol and m_listeners are
\* moved (src keeps a null shared_ptr and an empty vector), m_id_generator
\* is copied
EventEmitterMove(src, dst) ==
  /\ kind[src] = "emitter"
  /\ kind[dst] = "none"
  /\ kind' = [kind EXCEPT ![dst] = "emitter"]
  /\ m_lifecontrol' = [m_lifecontrol EXCEPT ![dst] = m_lifecontrol[src], ![src] = 0]
  /\ m_listeners' = [m_listeners EXCEPT ![dst] = m_listeners[src], ![src] = <<>>]
  /\ m_id_generator' = [m_id_generator EXCEPT ![dst] = m_id_generator[src]]
  /\ out' = Out("EventEmitter(&&)", dst, "", 0, <<>>, "", src, FALSE, <<>>, "")
  /\ UNCHANGED <<nextToken, m_connection_list, handles, history>>
  /\ UNCHANGED <<relaxedVars, pubsubVars>>

\* the handle passes isValid() although no emitter lives at m_emitter
Dangling(hd) == isValid(hd) /\ kind[hd.m_emitter] = "none"

\* the process has not ended
Ok == out.result # "crash"

\* disconnect() or the destructor of a Dangling handle: removeListener is
\* called on a destroyed emitter, which is undefined; either the call goes
\* through on released memory and the handle is released, or the process
\* ends
UseAfterFree(h, op, ub) ==
  /\ handles[h].constructed
  /\ Dangling(handles[h])
  /\ handles' = [handles EXCEPT ![h] = IF ub = "crash" THEN @
                                       ELSE IF op = "disconnect" THEN [release(@).hd EXCEPT !.st = "disconnected"]
                                       ELSE NoHandle]
  /\ out' = Out(op, handles[h].m_emitter, "", h, <<>>, IF ub = "crash" THEN "crash" ELSE "", handles[h].m_connection_id, FALSE,
                << <<handles[h].m_emitter, handles[h].m_connection_id>> >>, handles[h].st)
  /\ UNCHANGED <<kind, m_lifecontrol, nextToken, m_id_generator, m_listeners, m_connection_list, history>>
  /\ UNCHANGED <<relaxedVars, pubsubVars>>

\* ---------------------------------------------------------------- Object
\* Object::connect(src, event, context, callable): where the handle made
\* from src->m_events.on() is stored
connect_src(lists, src, context, handle) == [lists EXCEPT ![src] = Append(@, handle)]
connect(lists, src, context, handle) == [lists EXCEPT ![context] = Append(@, handle)]

Connect(src, ev, context, cb) ==
  /\ kind[src] = "object"
  /\ kind[context] = "object"
  /\ m_id_generator[src] < MaxId
  /\ Len(m_connection_list[context]) < MaxConn
  /\ LET id == m_id_generator[src] + 1
     IN /\ m_id_generator' = [m_id_generator EXCEPT ![src] = id]
        /\ m_listeners' = [m_listeners EXCEPT ![src] = Append(@, Listener(id, ev, cb, FALSE))]
        /\ m_connection_list' = connect(m_connection_list, src, context, ConnectionHandleOf(src, id))
        /\ out' = Out("connect", src, ev, context, <<>>, "", id, FALSE, <<>>, "")
        /\ history' = history \cup {Event(m_lifecontrol[src], id, "connect", m_lifecontrol[context])}
  /\ UNCHANGED <<kind, m_lifecontrol, nextToken, handles>>
  /\ UNCHANGED <<relaxedVars, pubsubVars>>

\* the handles of a connection list are destroyed one after the other, from
\* position k on
RECURSIVE destroy_list(_, _, _, _)
destroy_list(list, k, regs, rm) ==
  IF k > Len(list) THEN [regs |-> regs, rm |-> rm]
  ELSE LET d == dtor(list[k], regs)
       IN destroy_list(list, k + 1, d.regs, rm \o d.rm)

\* Object::~Object: m_connection_list is destroyed, then m_events
ObjectDtor(o) ==
  /\ kind[o] = "object"
  /\ Gone(o)
  /\ LET d == destroy_list(m_connection_list[o], 1, m_listeners, <<>>)
     IN /\ m_listeners' = [d.regs EXCEPT ![o] = <<>>]
        /\ out' = Out("~Object", o, "", 0, <<>>, "", Len(m_connection_list[o]), FALSE, d.rm, "")
  /\ m_connection_list' = [m_connection_list EXCEPT ![o] = <<>>]
  /\ history' = Prune(history, o)
  /\ UNCHANGED <<nextToken, handles>>
  /\ UNCHANGED <<relaxedVars, pubsubVars>>

\* --------------------------------------------------------- invoke_relaxed
\* A callable is described by the number of parameters it declares; the
\* arguments are the tuple t.  NoCall: f has not been called.
ArgValues == 1..NumArgValues
Callable(k) == [params |-> k]
NoCall == [called |-> FALSE, args |-> <<>>]
Call(args) == [called |-> TRUE, args |-> args]

\* the tuples of at most MaxArgs arguments
Tuples == UNION {[1..n -> ArgValues] : n \in 0..MaxArgs}

\* std::is_invocable<F, tuple_element_t<I, Tuple>...> for the first I
\* elements of the tuple
is_invocable(f, I) == f.params = I

\* apply_relaxed_impl(f, t, index_sequence<0 .. I-1>): the call of f made
RECURSIVE apply_relaxed_impl(_, _, _)
apply_relaxed_all(f, t, I) == Call(t)
apply_relaxed_impl(f, t, I) ==
  IF I = 0 THEN Call(<<>>)
  ELSE IF is_invocable(f, I) THEN Call(SubSeq(t, 1, I))
  ELSE apply_relaxed_impl(f, t, I - 1)

\* apply_relaxed(f, t): starts with all the elements of the tuple
apply_relaxed(f, t) == apply_relaxed_impl(f, t, Len(t))

\* invoke_relaxed(f, args...) called by the client
InvokeRelaxed ==
  /\ ~relaxed_call.called
  /\ relaxed_call' = apply_relaxed(relaxed_f, relaxed_t)
  /\ UNCHANGED <<relaxed_f, relaxed_t, emitterVars, pubsubVars>>

\* no call of invoke_relaxed is under way
NoRelaxed ==
  /\ relaxed_f = Callable(0)
  /\ relaxed_t = <<>>
  /\ relaxed_call = NoCall

\* ------------------------------------------------- Publisher, Subscriber
\* Publishers and subscribers live at addresses that can be reused after
\* destruction.  m_subscribers holds subscriber addresses; an address whose
\* subscriber was destroyed is a dangling pointer.
PublisherAddrs == 1..NumPublishers
SubscriberAddrs == 1..NumSubscribers

\* op: the operation; p, sub: its publisher and subscriber (0: none); calls:
\* the subscribers notify called, in call order; changed: the operation
\* changed a set; result: "ok", or "crash" when the operation dereferenced a
\* destroyed object and the process ended there
PsOut(op, p, sub, calls, changed, result) ==
  [op |-> op, p |-> p, sub |-> sub, calls |-> calls, changed |-> changed, result |-> result]
NoPsOut == PsOut("init", 0, 0, <<>>, FALSE, "ok")

\* what dereferencing a destroyed object can do: the access goes through
\* (it reads or writes released memory) or the process ends
Undefined == {"goes_through", "crash"}

\* Publisher::find_subscriber (std::find): the position of listener, or
\* Len + 1 for end()
RECURSIVE find_subscriber(_, _, _)
find_subscriber(subs, it, listener) ==
  IF it > Len(subs) THEN it
  ELSE IF subs[it] = listener THEN it
  ELSE find_subscriber(subs, it + 1, listener)

\* Publisher::addSubscriber of publisher this: its set and the
\* back-references (pubs) after the call
addSubscriber_push(subs, pubs, this, sub) ==
  [subs |-> Append(subs, sub), pubs |-> [pubs EXCEPT ![sub] = this], changed |-> TRUE]
addSubscriber(subs, pubs, this, sub) ==
  LET it == find_subscriber(subs, 1, sub)
  IN IF it = Len(subs) + 1
     THEN [subs |-> Append(subs, sub), pubs |-> [pubs EXCEPT ![sub] = this], changed |-> TRUE]
     ELSE [subs |-> subs, pubs |-> pubs, changed |-> FALSE]

\* Publisher::removeSubscriber
removeSubscriber(subs, pubs, sub) ==
  LET it == find_subscriber(subs, 1, sub)
  IN IF it # Len(subs) + 1
     THEN [subs |-> erase(subs, it), pubs |-> [pubs EXCEPT ![sub] = 0], changed |-> TRUE]
     ELSE [subs |-> subs, pubs |-> pubs, changed |-> FALSE]

\* notify_all from position it on: the subscribers called; calling a
\* destroyed subscriber is undefined (ub says what it does)
RECURSIVE notify_all(_, _, _, _)
notify_all(subs, it, calls, ub) ==
  IF it > Len(subs) THEN [calls |-> calls, result |-> "ok"]
  ELSE IF ~s_alive[subs[it]] /\ ub = "crash" THEN [calls |-> Append(calls, subs[it]), result |-> "crash"]
  ELSE notify_all(subs, it + 1, Append(calls, subs[it]), ub)

\* the std::for_each of Publisher::~Publisher from position it on: the
\* back-references after it; writing to a destroyed subscriber is undefined
RECURSIVE clear_publisher(_, _, _, _)
clear_publisher(subs, it, pubs, ub) ==
  IF it > Len(subs) THEN [pubs |-> pubs, result |-> "ok"]
  ELSE IF s_alive[subs[it]] THEN clear_publisher(subs, it + 1, [pubs EXCEPT ![subs[it]] = 0], ub)
  ELSE IF ub = "crash" THEN [pubs |-> pubs, result |-> "crash"]
  ELSE clear_publisher(subs, it + 1, pubs, ub)

\* the process has not ended
Running == ps_out.result # "crash"

\* Publisher::Publisher (implicit): an empty set
PublisherCtor(pub) ==
  /\ Running
  /\ ~p_alive[pub]
  /\ p_alive' = [p_alive EXCEPT ![pub] = TRUE]
  /\ m_subscribers' = [m_subscribers EXCEPT ![pub] = <<>>]
  /\ ps_out' = PsOut("Publisher", pub, 0, <<>>, FALSE, "ok")
  /\ UNCHANGED <<s_alive, m_publisher, emitterVars, relaxedVars>>

\* Publisher::~Publisher
PublisherDtor(pub, ub) ==
  /\ Running
  /\ p_alive[pub]
  /\ LET r == clear_publisher(m_subscribers[pub], 1, m_publisher, ub)
     IN /\ m_publisher' = r.pubs
        /\ ps_out' = PsOut("~Publisher", pub, 0, <<>>, FALSE, r.result)
  /\ p_alive' = [p_alive EXCEPT ![pub] = FALSE]
  /\ m_subscribers' = [m_subscribers EXCEPT ![pub] = <<>>]
  /\ UNCHANGED <<s_alive, emitterVars, relaxedVars>>

\* Subscriber::Subscriber (implicit): m_publisher = nullptr
SubscriberCtor(sub) ==
  /\ Running
  /\ ~s_alive[sub]
  /\ s_alive' = [s_alive EXCEPT ![sub] = TRUE]
  /\ m_publisher' = [m_publisher EXCEPT ![sub] = 0]
  /\ ps_out' = PsOut("Subscriber", 0, sub, <<>>, FALSE, "ok")
  /\ UNCHANGED <<p_alive, m_subscribers, emitterVars, relaxedVars>>

\* Subscriber::~Subscriber: removeSubscriber(this) on m_publisher, if any
SubscriberDtor(sub) ==
  /\ Running
  /\ s_alive[sub]
  /\ LET pub == m_publisher[sub]
     IN IF pub # 0
        THEN LET r == removeSubscriber(m_subscribers[pub], m_publisher, sub)
             IN /\ m_subscribers' = [m_subscribers EXCEPT ![pub] = r.subs]
                /\ ps_out' = PsOut("~Subscriber", pub, sub, <<>>, r.changed, "ok")
        ELSE /\ m_subscribers' = m_subscribers
             /\ ps_out' = PsOut("~Subscriber", 0, sub, <<>>, FALSE, "ok")
  /\ s_alive' = [s_alive EXCEPT ![sub] = FALSE]
  /\ m_publisher' = [m_publisher EXCEPT ![sub] = 0]
  /\ UNCHANGED <<p_alive, emitterVars, relaxedVars>>

\* Publisher::addSubscriber called by the client
AddSubscriber(pub, sub) ==
  /\ Running
  /\ p_alive[pub]
  /\ s_alive[sub]
  /\ LET r == addSubscriber(m_subscribers[pub], m_publisher, pub, sub)
     IN /\ m_subscribers' = [m_subscribers EXCEPT ![pub] = r.subs]
        /\ m_publisher' = r.pubs
        /\ ps_out' = PsOut("addSubscriber", pub, sub, <<>>, r.changed, "ok")
  /\ UNCHANGED <<p_alive, s_alive, emitterVars, relaxedVars>>

\* Publisher::removeSubscriber called by the client
RemoveSubscriber(pub, sub) ==
  /\ Running
  /\ p_alive[pub]
  /\ s_alive[sub]
  /\ LET r == removeSubscriber(m_subscribers[pub], m_publisher, sub)
     IN /\ m_subscribers' = [m_subscribers EXCEPT ![pub] = r.subs]
        /\ m_publisher' = r.pubs
        /\ ps_out' = PsOut("removeSubscriber", pub, sub, <<>>, r.changed, "ok")
  /\ UNCHANGED <<p_alive, s_alive, emitterVars, relaxedVars>>

\* Publisher::notify
Notify(pub, ub) ==
  /\ Running
  /\ p_alive[pub]
  /\ LET r == notify_all(m_subscribers[pub], 1, <<>>, ub)
     IN ps_out' = PsOut("notify", pub, 0, r.calls, FALSE, r.result)
  /\ UNCHANGED <<p_alive, m_subscribers, s_alive, m_publisher, emitterVars, relaxedVars>>

\* no publisher and no subscriber exists
NoPubSub ==
  /\ p_alive = [pub \in PublisherAddrs |-> FALSE]
  /\ m_subscribers = [pub \in PublisherAddrs |-> <<>>]
  /\ s_alive = [sub \in SubscriberAddrs |-> FALSE]
  /\ m_publisher = [sub \in SubscriberAddrs |-> 0]
  /\ ps_out = NoPsOut

\* ------------------------------------------------------- specifications
Init ==
  /\ NoRelaxed
  /\ NoPubSub
  /\ kind = [a \in Addrs |-> "none"]
  /\ m_lifecontrol = [a \in Addrs |-> 0]
  /\ nextToken = 0
  /\ m_id_generator = [a \in Addrs |-> 0]
  /\ m_listeners = [a \in Addrs |-> <<>>]
  /\ m_connection_list = [a \in Addrs |-> <<>>]
  /\ handles = [h \in Handles |-> NoHandle]
  /\ history = {}
  /\ out = NoOut

\* the events and callbacks of the handle and object scenarios
LifeEvents == {"nChanged"}
LifeCallbacks == {"returns"}

\* the number of ids handed out by the emitters that exist
RECURSIVE SumIds(_)
SumIds(S) ==
  IF S = {} THEN 0
  ELSE LET a == CHOOSE x \in S : TRUE IN m_id_generator[a] + SumIds(S \ {a})

TotalIds == SumIds(Addrs)

\* the number of entries in the sets of subscribers of all publishers
RECURSIVE SumSubscribers(_)
SumSubscribers(S) ==
  IF S = {} THEN 0
  ELSE LET p == CHOOSE x \in S : TRUE IN Len(m_subscribers[p]) + SumSubscribers(S \ {p})

TotalSubscriptions == SumSubscribers(PublisherAddrs)

\* emitters and handles: construction, registration, dispatch, destruction
Next ==
  \/ \E a \in EmitterAddrs : nextToken < MaxTokens /\ EventEmitterCtor(a)
  \/ \E a \in EmitterAddrs : EventEmitterDtor(a)
  \/ \E a \in EmitterAddrs, ev \in LifeEvents, cb \in LifeCallbacks, h \in Handles \cup {0} :
        TotalIds < MaxIdLife /\ On(a, ev, cb, h)
  \/ \E a \in EmitterAddrs, ev \in LifeEvents, grow \in Growth : Emit(a, ev, grow)
  \/ \E a \in EmitterAddrs, cid \in 1..MaxIdLife : RemoveListener(a, cid)
  \/ \E h \in Handles : HandleCtor(h)
  \/ \E h \in Handles : Release(h)
  \/ \E h \in Handles : Disconnect(h)
  \/ \E h \in Handles : HandleDtor(h)

Spec == Init /\ [][Next]_vars

\* objects connected to each other
NextObject ==
  \/ \E a \in ObjectAddrs : nextToken < MaxObjectTokens /\ ObjectCtor(a)
  \/ \E a \in ObjectAddrs : ObjectDtor(a)
  \/ \E src \in ObjectAddrs, ev \in LifeEvents, context \in ObjectAddrs, cb \in LifeCallbacks :
        TotalIds < MaxIdLife /\ Connect(src, ev, context, cb)
  \/ \E a \in ObjectAddrs, ev \in LifeEvents, cb \in LifeCallbacks :
        TotalIds < MaxIdLife /\ On(a, ev, cb, 0)
  \/ \E a \in ObjectAddrs, ev \in LifeEvents, grow \in Growth : Emit(a, ev, grow)

SpecObject == Init /\ [][NextObject]_vars

\* one emitter, every kind of listener: registration, removal and dispatch
InitDispatch ==
  /\ NoRelaxed
  /\ NoPubSub
  /\ kind = [a \in Addrs |-> IF a = 1 THEN "emitter" ELSE "none"]
  /\ m_lifecontrol = [a \in Addrs |-> IF a = 1 THEN 1 ELSE 0]
  /\ nextToken = 1
  /\ m_id_generator = [a \in Addrs |-> 0]
  /\ m_listeners = [a \in Addrs |-> <<>>]
  /\ m_connection_list = [a \in Addrs |-> <<>>]
  /\ handles = [h \in Handles |-> NoHandle]
  /\ history = {}
  /\ out = NoOut

NextDispatch ==
  \/ \E ev \in Events, cb \in Callbacks : On(1, ev, cb, 0)
  \/ \E ev \in Events, cb \in Callbacks : Once(1, ev, cb, 0)
  \/ \E ev \in Events, grow \in Growth : Emit(1, ev, grow)
  \/ \E cid \in 1..MaxId : RemoveListener(1, cid)

SpecDispatch == InitDispatch /\ [][NextDispatch]_vars

\* invoke_relaxed on every callable and tuple of arguments that compiles
InitRelaxed ==
  /\ kind = [a \in Addrs |-> "none"]
  /\ m_lifecontrol = [a \in Addrs |-> 0]
  /\ nextToken = 0
  /\ m_id_generator = [a \in Addrs |-> 0]
  /\ m_listeners = [a \in Addrs |-> <<>>]
  /\ m_connection_list = [a \in Addrs |-> <<>>]
  /\ handles = [h \in Handles |-> NoHandle]
  /\ history = {}
  /\ out = NoOut
  /\ NoPubSub
  /\ relaxed_t \in Tuples
  /\ relaxed_f \in {Callable(k) : k \in 0..Len(relaxed_t)}
  /\ relaxed_call = NoCall

NextRelaxed == InvokeRelaxed

SpecRelaxed == InitRelaxed /\ [][NextRelaxed]_vars

\* publishers and subscribers
NextPubSub ==
  \/ \E pub \in PublisherAddrs : PublisherCtor(pub)
  \/ \E pub \in PublisherAddrs, ub \in Undefined : PublisherDtor(pub, ub)
  \/ \E sub \in SubscriberAddrs : SubscriberCtor(sub)
  \/ \E sub \in SubscriberAddrs : SubscriberDtor(sub)
  \/ \E pub \in PublisherAddrs, sub \in SubscriberAddrs :
        TotalSubscriptions < MaxSubscriptions /\ AddSubscriber(pub, sub)
  \/ \E pub \in PublisherAddrs, sub \in SubscriberAddrs : RemoveSubscriber(pub, sub)
  \/ \E pub \in PublisherAddrs, ub \in Undefined : Notify(pub, ub)

SpecPubSub == Init /\ [][NextPubSub]_vars

\* emitters that are move-constructed, and the handles issued against them
NextMove ==
  \/ \E a \in Addrs : Ok /\ nextToken < MaxMoveTokens /\ EventEmitterCtor(a)
  \/ \E a \in Addrs : Ok /\ EventEmitterDtor(a)
  \/ \E src \in Addrs, dst \in Addrs : Ok /\ EventEmitterMove(src, dst)
  \/ \E a \in Addrs, ev \in LifeEvents, cb \in LifeCallbacks, h \in Handles \cup {0} :
        Ok /\ TotalIds < MaxIdLife /\ On(a, ev, cb, h)
  \/ \E a \in Addrs, ev \in LifeEvents, grow \in Growth : Ok /\ Emit(a, ev, grow)
  \/ \E h \in Handles : Ok /\ ~Dangling(handles[h]) /\ Disconnect(h)
  \/ \E h \in Handles : Ok /\ ~Dangling(handles[h]) /\ HandleDtor(h)
  \/ \E h \in Handles, op \in {"disconnect", "~ConnectionHandle"}, ub \in Undefined : Ok /\ UseAfterFree(h, op, ub)

SpecMove == Init /\ [][NextMove]_vars

\* handles that are constructed from ConnectionData, move-constructed and
\* move-assigned
MoveHandles == 1..(NumHandles + 1)

InitHandleMove ==
  /\ NoRelaxed
  /\ NoPubSub
  /\ kind = [a \in Addrs |-> "none"]
  /\ m_lifecontrol = [a \in Addrs |-> 0]
  /\ nextToken = 0
  /\ m_id_generator = [a \in Addrs |-> 0]
  /\ m_listeners = [a \in Addrs |-> <<>>]
  /\ m_connection_list = [a \in Addrs |-> <<>>]
  /\ handles = [h \in MoveHandles |-> NoHandle]
  /\ history = {}
  /\ out = NoOut

NextHandleMove ==
  \/ \E a \in EmitterAddrs : nextToken < MaxTokens /\ EventEmitterCtor(a)
  \/ \E a \in EmitterAddrs : EventEmitterDtor(a)
  \/ \E a \in EmitterAddrs, ev \in LifeEvents, cb \in LifeCallbacks, h \in MoveHandles :
        TotalIds < MaxIdLife /\ On(a, ev, cb, h)
  \/ \E a \in EmitterAddrs, ev \in LifeEvents, grow \in Growth : Emit(a, ev, grow)
  \/ \E h \in MoveHandles, other \in MoveHandles : HandleMoveCtor(h, other)
  \/ \E h \in MoveHandles, other \in MoveHandles : HandleMoveAssign(h, other)
  \/ \E h \in MoveHandles : HandleDtor(h)
  \/ \E h \in MoveHandles : HandleOfData(h)

SpecHandleMove == InitHandleMove /\ [][NextHandleMove]_vars

\* one emitter whose callbacks register listeners while emit runs
NextReentrant ==
  \/ \E ev \in LifeEvents, cb \in ReentrantCallbacks : Ok /\ On(1, ev, cb, 0)
  \/ \E ev \in LifeEvents, cb \in ReentrantCallbacks : Ok /\ Once(1, ev, cb, 0)
  \/ \E ev \in LifeEvents, grow \in Growth :
        Ok /\ m_id_generator[1] + Len(m_listeners[1]) <= MaxId /\ Emit(1, ev, grow)
  \/ \E cid \in 1..MaxId : Ok /\ RemoveListener(1, cid)

SpecReentrant == InitDispatch /\ [][NextReentrant]_vars

\* ------------------------------------------------------------ properties
\* the ids of the listeners of a vector
Ids(ls) == {ls[k].id : k \in 1..Len(ls)}

\* the ids of the listeners of ls registered for event ev, in vector order
RegisteredFor(ls, ev) ==
  LET For(l) == l.m_signal = ev
      sel == SelectSeq(ls, For)
  IN [k \in 1..Len(sel) |-> sel[k].id]

\* the number of times id occurs in a list of calls
Count(calls, id) == Cardinality({k \in 1..Len(calls) : calls[k] = id})

\* the set of ids in a list of calls
Called(calls) == {calls[k] : k \in 1..Len(calls)}

\* C1: emit(E) invokes each listener currently registered for E exactly
\* once, in registration order (ascending connection id), and invokes no
\* listener that was removed before the emit.
C1_EmitInvokesRegisteredInOrder ==
  [][out'.op = "emit" => out'.calls = RegisteredFor(m_listeners[out'.a], out'.ev)]_vars

\* C2: a listener registered with once() for event E is invoked exactly
\* once by the emit(E) calls that follow, and after that invocation it is
\* no longer an entry of the registry.
C2_OnceInvokedExactlyOnce ==
  [][out'.op = "emit" =>
       \A k \in 1..Len(m_listeners[out'.a]) :
          LET l == m_listeners[out'.a][k]
          IN (l.once_flag /\ l.m_signal = out'.ev) =>
               /\ Count(out'.calls, l.id) = 1
               /\ l.id \notin Ids(m_listeners'[out'.a])]_vars

\* C3: after disconnect() on a valid handle the listener it managed is
\* never invoked by a later emit, and a further disconnect() on the same
\* handle changes neither the handle nor any registry.
C3_DisconnectSevers ==
  [][/\ out'.op = "emit" =>
          \A id \in Called(out'.calls) : Event(m_lifecontrol[out'.a], id, "disconnect", 0) \notin history
     /\ (out'.op = "disconnect" /\ handles[out'.h].st \in {"disconnected", "disconnected_again"}) =>
          /\ m_listeners' = m_listeners
          /\ out'.rm = <<>>
          /\ handles'[out'.h].m_emitter = handles[out'.h].m_emitter
          /\ handles'[out'.h].m_live = handles[out'.h].m_live
          /\ handles'[out'.h].m_connection_id = handles[out'.h].m_connection_id]_vars

\* the liveness token a handle holds is owned by no emitter
Stale(hd) == hd.m_live # 0 /\ \A a \in Addrs : m_lifecontrol[a] # hd.m_live

\* the emitter object a handle was issued against has been destroyed: its
\* liveness token is gone, or no emitter lives at the address the handle
\* keeps
Destroyed(hd) == Stale(hd) \/ (hd.m_emitter # 0 /\ kind[hd.m_emitter] = "none")

\* C4: once an EventEmitter is destroyed, every handle issued against it
\* reports isValid() = false, and disconnect() or destruction of such a
\* handle makes no removeListener call and changes no registry.
C4_DestroyedEmitterInvalidates ==
  /\ [](\A h \in Handles : Destroyed(handles[h]) => (~isValid(handles[h]) /\ eventEmitter(handles[h]) = 0))
  /\ [][(out'.op \in {"disconnect", "~ConnectionHandle"} /\ Destroyed(handles[out'.h])) =>
          (out'.rm = <<>> /\ m_listeners' = m_listeners)]_vars

\* C5: a connection made by Object::connect with a context is severed
\* when either object is destroyed: emitting on the live source after the
\* context is destroyed does not invoke the callback, and the destruction
\* of a context calls removeListener on no destroyed emitter.
C5_ContextSevers ==
  [][/\ out'.op = "emit" =>
          \A e \in history :
             (e.by = "connect" /\ e.tok = m_lifecontrol[out'.a] /\ e.id \in Called(out'.calls)) =>
               \E c \in Addrs : m_lifecontrol[c] = e.ctx
     /\ out'.op = "~Object" =>
          \A k \in 1..Len(out'.rm) : kind[out'.rm[k][1]] # "none"]_vars

\* the source emitted and called a listener after the context of another of
\* its connections had been destroyed
C5_Witness ==
  /\ out.op = "emit"
  /\ out.calls # <<>>
  /\ \E e \in history :
        /\ e.by = "connect"
        /\ e.tok = m_lifecontrol[out.a]
        /\ e.ctx # e.tok
        /\ \A c \in Addrs : m_lifecontrol[c] # e.ctx

\* a context holding the handle of a destroyed source was destroyed
C5_WitnessSourceFirst ==
  /\ out.op = "~Object"
  /\ out.ret > 0
  /\ out.rm = <<>>

C7_DestructorDisconnects ==
  [][/\ (out'.op = "~ConnectionHandle" /\ isValid(handles[out'.h])) =>
          /\ handles[out'.h].m_connection_id \notin Ids(m_listeners'[handles[out'.h].m_emitter])
          /\ out'.rm = << <<handles[out'.h].m_emitter, handles[out'.h].m_connection_id>> >>
     /\ out'.op = "emit" =>
          \A id \in Called(out'.calls) : Event(m_lifecontrol[out'.a], id, "dtor", 0) \notin history]_vars

\* C8: two distinct events with identical parameter lists are distinct
\* keys: emit of one never invokes a listener registered for the other.
C8_SameSignatureDistinctKeys ==
  [][out'.op = "emit" =>
       \A k \in 1..Len(m_listeners[out'.a]) :
          LET l == m_listeners[out'.a][k]
          IN (l.m_signal # out'.ev /\ MemFnPtr(l.m_signal) = MemFnPtr(out'.ev)) =>
               l.id \notin Called(out'.calls)]_vars

\* an emit called a listener while the registry held a listener for another
\* event with the same parameter list
C8_Witness ==
  /\ out.op = "emit"
  /\ out.calls # <<>>
  /\ \E k \in 1..Len(m_listeners[out.a]) :
        /\ m_listeners[out.a][k].m_signal # out.ev
        /\ MemFnPtr(m_listeners[out.a][k].m_signal) = MemFnPtr(out.ev)

\* C9: whatever listeners the registry holds, emit(E) invokes every
\* listener registered for E, invokes no other listener, and returns
\* normally with no exception reaching the caller.
C9_AnyEmitterEmitsAnyEvent ==
  [][out'.op = "emit" =>
       /\ out'.result = "ok"
       /\ Called(out'.calls) = {m_listeners[out'.a][k].id : k \in {j \in 1..Len(m_listeners[out'.a]) : m_listeners[out'.a][j].m_signal = out'.ev}}]_vars

\* C10: when a listener callback throws during emit(E), every matching
\* listener registered after it is still invoked in the same emit, and emit
\* returns normally.
C10_ThrowingCallbackSuppressed ==
  [][out'.op = "emit" =>
       \A k \in 1..Len(m_listeners[out'.a]) :
          LET l == m_listeners[out'.a][k]
          IN (l.m_signal = out'.ev /\ l.m_callback = "throws" /\ l.id \in Called(out'.calls)) =>
               /\ out'.result = "ok"
               /\ \A j \in (k + 1)..Len(m_listeners[out'.a]) :
                     m_listeners[out'.a][j].m_signal = out'.ev => m_listeners[out'.a][j].id \in Called(out'.calls)]_vars

\* C11: arity tolerance: a listener declaring k <= n parameters is invoked
\* with exactly the first k of the n arguments, in order; the n-k trailing
\* arguments are dropped and no error is raised.
C11_ArityTolerance ==
  relaxed_call.called =>
    /\ Len(relaxed_call.args) = relaxed_f.params
    /\ \A i \in 1..relaxed_f.params : relaxed_call.args[i] = relaxed_t[i]

\* a listener declaring one parameter was called with the first of two
\* different arguments
C11_Witness ==
  /\ relaxed_call.called
  /\ Len(relaxed_t) = 2
  /\ relaxed_t[1] # relaxed_t[2]
  /\ relaxed_f.params = 1
  /\ relaxed_call.args = <<relaxed_t[1]>>

\* the subscribers of a set
Subscribers(subs) == {subs[k] : k \in 1..Len(subs)}

\* C12: membership is symmetric in every reachable state: a subscriber is
\* in publisher P's set if and only if its back-reference points to P.
C12_MembershipSymmetric ==
  \A pub \in PublisherAddrs, sub \in SubscriberAddrs :
     (p_alive[pub] /\ s_alive[sub]) =>
        (sub \in Subscribers(m_subscribers[pub]) <=> m_publisher[sub] = pub)

\* C13: addSubscriber on a publisher whose set already contains the
\* subscriber leaves the set (size and order) unchanged, and a set never
\* contains the same subscriber twice.
C13_AddSubscriberIdempotent ==
  /\ [](\A pub \in PublisherAddrs : Cardinality(Subscribers(m_subscribers[pub])) = Len(m_subscribers[pub]))
  /\ [][(ps_out'.op = "addSubscriber" /\ ps_out'.sub \in Subscribers(m_subscribers[ps_out'.p])) =>
          m_subscribers' = m_subscribers]_vars

\* addSubscriber was called for a subscriber that was already in a set of
\* two subscribers
C13_Witness ==
  /\ ps_out.op = "addSubscriber"
  /\ ~ps_out.changed
  /\ Len(m_subscribers[ps_out.p]) = 2
  /\ ps_out.sub \in Subscribers(m_subscribers[ps_out.p])

\* a sequence without the subscriber sub
Without(subs, sub) == SelectSeq(subs, LAMBDA x : x # sub)

\* C14: destroying a Subscriber that has a publisher removes it from that
\* publisher's set, the other members keeping their order; destroying a
\* Publisher sets the back-reference of every subscriber in its set to none.
C14_DestructionUpdatesOtherSide ==
  [][/\ (ps_out'.op = "~Subscriber" /\ m_publisher[ps_out'.sub] # 0) =>
          m_subscribers'[m_publisher[ps_out'.sub]] = Without(m_subscribers[m_publisher[ps_out'.sub]], ps_out'.sub)
     /\ ps_out'.op = "~Publisher" =>
          \A sub \in Subscribers(m_subscribers[ps_out'.p]) : m_publisher'[sub] = 0]_vars

\* C18: notify invokes the method exactly once on every subscriber in the
\* publisher's set, in insertion order, and on no subscriber that was
\* removed or destroyed before the call.
C18_NotifyCallsCurrentSubscribers ==
  [][ps_out'.op = "notify" =>
       /\ ps_out'.calls = m_subscribers[ps_out'.p]
       /\ \A k \in 1..Len(ps_out'.calls) : s_alive[ps_out'.calls[k]]]_vars

\* C15: removeListener(id) returns true exactly when an entry with that id
\* is in the registry, and then removes that entry and no other, the rest
\* keeping their order; for an absent id it returns false and leaves the
\* registry unchanged.
C15_RemoveListenerExact ==
  [][out'.op = "removeListener" =>
       LET ls == m_listeners[out'.a]
           cid == out'.ret
       IN /\ out'.removed <=> cid \in Ids(ls)
          /\ out'.removed => m_listeners'[out'.a] = SelectSeq(ls, LAMBDA l : l.id # cid)
          /\ ~out'.removed => m_listeners' = m_listeners]_vars

\* removeListener returned false for an id that had been issued and is no
\* longer in the registry, which holds a smaller and a larger id
C15_Witness ==
  /\ out.op = "removeListener"
  /\ ~out.removed
  /\ out.ret <= m_id_generator[out.a]
  /\ \E i, j \in Ids(m_listeners[out.a]) : i < out.ret /\ out.ret < j

\* C16: within one emitter the ids issued by on() and once() are greater
\* than 0 and strictly increasing, the first is 1, and no id is issued
\* twice during the emitter's lifetime: m_id_generator never decreases
\* while the emitter lives, every issued id is greater than it and than
\* every id of the registry, and it then holds the issued id.
C16_IdsStrictlyIncreasing ==
  [][/\ \A a \in Addrs :
          (m_lifecontrol[a] # 0 /\ m_lifecontrol'[a] = m_lifecontrol[a]) => m_id_generator'[a] >= m_id_generator[a]
     /\ out'.op \in {"on", "once"} =>
          /\ out'.ret > 0
          /\ out'.ret > m_id_generator[out'.a]
          /\ \A id \in Ids(m_listeners[out'.a]) : out'.ret > id
          /\ m_id_generator[out'.a] = 0 => out'.ret = 1
          /\ m_id_generator'[out'.a] = out'.ret]_vars

\* an id was issued after earlier listeners had been removed or had fired:
\* it is larger than the number of listeners in the registry
C16_Witness ==
  /\ out.op \in {"on", "once"}
  /\ out.ret > Len(m_listeners[out.a])
  /\ out.ret > 1

\* C17: in every reachable state eventEmitter() returns null or a pointer
\* to an EventEmitter that is alive, never a non-null pointer to a destroyed
\* EventEmitter.
C17_EventEmitterNullOrAlive ==
  \A h \in DOMAIN handles :
     handles[h].constructed =>
        (eventEmitter(handles[h]) = 0 \/ kind[eventEmitter(handles[h])] # "none")

\* C19: disconnect() always leaves the handle empty: after disconnect() on
\* a handle that is invalid because its emitter was destroyed, m_emitter and
\* m_live are cleared and connectionId() is 0, and no removeListener call
\* was made.
C19_DisconnectLeavesEmpty ==
  [][out'.op = "disconnect" =>
       /\ handles'[out'.h].m_emitter = 0
       /\ handles'[out'.h].m_live = 0
       /\ handles'[out'.h].m_connection_id = 0
       /\ Stale(handles[out'.h]) => out'.rm = <<>>]_vars

\* C20: move-construction and move-assignment transfer the connection: the
\* target's previous connection, if valid, is removed from its emitter; the
\* target then holds the source's emitter, liveness and id; the source is
\* left empty; the transferred listener stays registered.
C20_MoveTransfersConnection ==
  [][out'.op \in {"ConnectionHandle(&&)", "operator="} =>
       LET prev == handles[out'.h]
           src == handles[out'.ret]
       IN /\ (out'.op = "operator=" /\ isValid(prev)) =>
                prev.m_connection_id \notin Ids(m_listeners'[prev.m_emitter])
          /\ handles'[out'.h].m_emitter = src.m_emitter
          /\ handles'[out'.h].m_live = src.m_live
          /\ handles'[out'.h].m_connection_id = src.m_connection_id
          /\ out'.ret # out'.h =>
                /\ handles'[out'.ret].m_emitter = 0
                /\ handles'[out'.ret].m_live = 0
                /\ handles'[out'.ret].m_connection_id = 0
          /\ (isValid(src) /\ src.m_connection_id \in Ids(m_listeners[src.m_emitter])) =>
                src.m_connection_id \in Ids(m_listeners'[src.m_emitter])]_vars

\* C25: after any sequence of addSubscriber, removeSubscriber and
\* destructions over several publishers and subscribers, no publisher's set
\* holds a destroyed subscriber and no live subscriber's back-reference
\* points to a destroyed publisher.
C25_NoDanglingReference ==
  /\ \A pub \in PublisherAddrs :
        p_alive[pub] => \A sub \in Subscribers(m_subscribers[pub]) : s_alive[sub]
  /\ \A sub \in SubscriberAddrs :
        (s_alive[sub] /\ m_publisher[sub] # 0) => p_alive[m_publisher[sub]]

\* C26: a once listener is removed from the registry after its first
\* invocation whether its callback returned normally or threw; in both
\* cases no later emit invokes it: emit calls no id that was issued before
\* and is no longer in the registry, and an id that has left the registry
\* never comes back.
C26_OnceRemovedAlsoWhenThrowing ==
  [][/\ out'.op = "emit" =>
          /\ \A k \in 1..Len(m_listeners[out'.a]) :
                LET l == m_listeners[out'.a][k]
                IN (l.once_flag /\ l.id \in Called(out'.calls)) =>
                     /\ Count(out'.calls, l.id) = 1
                     /\ l.id \notin Ids(m_listeners'[out'.a])
          /\ \A id \in Called(out'.calls) :
                id \in Ids(m_listeners[out'.a]) \/ id > m_id_generator[out'.a]
     /\ \A a \in Addrs : \A id \in 1..m_id_generator[a] :
          (kind'[a] # "none" /\ id \notin Ids(m_listeners[a])) => id \notin Ids(m_listeners'[a])]_vars

\* an emit called one listener only, its callback threw, the emit returned
\* normally and the listener is no longer in the registry
C26_Witness ==
  /\ out.op = "emit"
  /\ out.result = "ok"
  /\ Len(out.calls) = 1
  /\ out.ret = 1
  /\ out.calls[1] \notin Ids(m_listeners[out.a])
  /\ m_listeners[out.a] # <<>>

\* the vector ls without its once listeners registered for event ev
WithoutOnce(ls, ev) ==
  LET Stays(l) == ~(l.once_flag /\ l.m_signal = ev)
  IN SelectSeq(ls, Stays)

\* C22: the removal of once listeners during the scan of emit(E) neither
\* skips nor visits twice a neighbour: one emit(E) invokes every matching
\* entry exactly once, and afterwards the registry holds
\* the former entries minus the matching once entries, in their order.
C22_OnceRemovalKeepsScan ==
  [][out'.op = "emit" =>
       /\ \A id \in Ids(m_listeners[out'.a]) :
             Count(out'.calls, id) = Count(RegisteredFor(m_listeners[out'.a], out'.ev), id)
       /\ m_listeners'[out'.a] = WithoutOnce(m_listeners[out'.a], out'.ev)]_vars

\* C23: a connection has one controlling handle: in every reachable state
\* at most one ConnectionHandle holds a given (emitter, connection id) pair.
C23_OneControllingHandle ==
  \A h1 \in DOMAIN handles, h2 \in DOMAIN handles :
     (/\ h1 # h2
      /\ handles[h1].constructed
      /\ handles[h2].constructed
      /\ handles[h1].m_emitter # 0
      /\ handles[h1].m_emitter = handles[h2].m_emitter
      /\ handles[h1].m_live = handles[h2].m_live) =>
        handles[h1].m_connection_id # handles[h2].m_connection_id

\* C24: disconnect(), destruction or move-assignment over a handle removes
\* from the registries at most the entry whose id equals the handle's id,
\* leaves the registries unchanged when that entry is already gone, and
\* removes no listener registered later: an entry is removed only from the
\* emitter that issued the connection (the owner of the handle's token).
C24_HandleRemovesOwnEntryOnly ==
  [][out'.op \in {"disconnect", "~ConnectionHandle", "operator="} =>
       LET hd == handles[out'.h]
           Other(l) == l.id # hd.m_connection_id
       IN /\ \A a \in Addrs :
               \/ m_listeners'[a] = m_listeners[a]
               \/ a = hd.m_emitter /\ m_listeners'[a] = SelectSeq(m_listeners[a], Other)
          /\ m_listeners' # m_listeners => m_lifecontrol[hd.m_emitter] = hd.m_live]_vars

\* C21: a listener that a callback registers for event E while emit(E)
\* runs is not invoked during that emit: every callback the emit calls
\* belongs to a listener registered before the emit began.
C21_AddedDuringEmitNotInvoked ==
  [][out'.op = "emit" => \A id \in Called(out'.calls) : id <= m_id_generator[out'.a]]_vars

====
